---- MODULE Spec2Model ----
(***************************************************************************)
(* A model of dyfidep/deptrees.py: the staleness policies (UpdateByMtime,  *)
(* UpdateByMtimeAndExistance), the three dependency relations built on    *)
(* them, the JSON cache file they share, and the pattern tokenizer.        *)
(*                                                                         *)
(* A path is a sequence of one-character strings, as a Python str is a     *)
(* sequence of one-character strs: <<"s","a">> is the path "sa".           *)
(***************************************************************************)
EXTENDS Integers, Sequences, FiniteSets, TLC

VARIABLES
    fs,          \* the directory: canonical path -> st_mtime, 0 when no such file
    cache_file,  \* what is on disk at UpdateByMtimeAndExistance.cache_file
    how,         \* the UpdateCheckMethod class of the relation's _how
    rel,         \* the ManyToVariableOnePatternDependency object, if constructed
    ret,         \* the last call made by the caller and what it returned or raised
    writer,      \* the processes inside update_cache, one record each
    tokenizer,   \* the _PatternTokenizer object: pattern, index, group
    committed,   \* history: the _to_file and the input files of the last
                 \* ManyToVariableOne set_files_updated that returned
    how_cache_file,  \* the cache_file attribute of the UpdateByMtimeAndExistance
                 \* object the caller holds
    recorded     \* history of the step-by-step update_cache calls: by, the
                 \* processes that have made one, and doc, key -> entry of
                 \* the calls that have returned, the latest entry of each key

vars == <<fs, cache_file, how, rel, ret, writer, tokenizer, committed, how_cache_file,
          recorded>>

(***************************************************************************)
(* Bounds                                                                  *)
(***************************************************************************)
\* modification times range over 1..MaxTime
MaxTime == 2

(***************************************************************************)
(* Strings and paths                                                       *)
(***************************************************************************)
\* ord() of the characters the model uses; Python compares strs by it
Ord(c) ==
    CASE c = "$" -> 36 [] c = "%" -> 37 [] c = "(" -> 40 [] c = ")" -> 41
      [] c = "*" -> 42 [] c = "," -> 44 [] c = "." -> 46 [] c = "/" -> 47
      [] c = "1" -> 49 [] c = "2" -> 50 [] c = "?" -> 63 [] c = "\\" -> 92
      [] c = "^" -> 94 [] c = "a" -> 97 [] c = "b" -> 98 [] c = "k" -> 107
      [] c = "o" -> 111 [] c = "s" -> 115 [] c = "t" -> 116
      [] c = "{" -> 123 [] c = "}" -> 125

RECURSIVE StrLess(_, _)
\* s < t for two Python strs
StrLess(s, t) ==
    IF t = <<>> THEN FALSE
    ELSE IF s = <<>> THEN TRUE
    ELSE IF Head(s) = Head(t) THEN StrLess(Tail(s), Tail(t))
    ELSE Ord(Head(s)) < Ord(Head(t))

RECURSIVE Insert(_, _)
Insert(x, s) ==
    IF s = <<>> THEN <<x>>
    ELSE IF StrLess(Head(s), x) THEN <<Head(s)>> \o Insert(x, Tail(s))
    ELSE <<x>> \o s

RECURSIVE sorted(_)
\* sorted(iterable of str): ascending, duplicates kept
sorted(s) == IF s = <<>> THEN <<>> ELSE Insert(Head(s), sorted(Tail(s)))

Range(s) == {s[i] : i \in DOMAIN s}

\* every order in which a directory scan may list the members of S
Orderings(S) ==
    {s \in [1..Cardinality(S) -> S] : \A i, j \in 1..Cardinality(S) : s[i] = s[j] => i = j}

\* iterating a str yields its characters, each a str of length one
IterStr(p) == [i \in 1..Len(p) |-> <<p[i]>>]

\* the value of an omitted output_alt_path_key
None == <<"None">>

RECURSIVE StripDot(_)
StripDot(p) ==
    IF Len(p) >= 2 /\ p[1] = "." /\ p[2] = "/" THEN StripDot(SubSeq(p, 3, Len(p)))
    ELSE p

\* str(Path(p).resolve()) with the working directory "/": absolute paths are
\* kept, a relative one loses its leading "./" components and gains the "/"
Resolve(p) ==
    IF p # <<>> /\ Head(p) = "/" THEN p ELSE <<"/">> \o StripDot(p)

(***************************************************************************)
(* The file system                                                         *)
(***************************************************************************)
\* the names a directory entry may have in some specification
AllNames ==
    { <<"s","a">>, <<"s","b">>, <<"s">>, <<"a">>, <<"b">>,
      <<"t","a">>, <<"t","b">>, <<"t","*">>, <<"o">>, <<"k">> }

AllFiles == {Resolve(n) : n \in AllNames}

\* Path(p).exists()
Exists(p) == Resolve(p) \in DOMAIN fs /\ fs[Resolve(p)] > 0

\* Path(p).stat().st_mtime, for a path that exists
Mtime(p) == fs[Resolve(p)]

RECURSIVE fnmatch(_, _)
\* fnmatch of one directory entry against a glob pattern of *, ? and literals
fnmatch(name, pat) ==
    IF pat = <<>> THEN name = <<>>
    ELSE IF Head(pat) = "*"
        THEN \E k \in 0..Len(name) : fnmatch(SubSeq(name, k + 1, Len(name)), Tail(pat))
    ELSE IF Head(pat) = "?"
        THEN name # <<>> /\ fnmatch(Tail(name), Tail(pat))
    ELSE name # <<>> /\ Head(name) = Head(pat) /\ fnmatch(Tail(name), Tail(pat))

\* the set of paths glob(pattern) lists: the existing entries of the working
\* directory that match, spelled relative to it
Glob(pattern) ==
    {Tail(c) : c \in {d \in DOMAIN fs : fs[d] > 0 /\ fnmatch(Tail(d), pattern)}}

(***************************************************************************)
(* The cache file and the update check methods                             *)
(***************************************************************************)
\* cache_file.kind: "absent" no file; "doc" a complete JSON document, the
\* dict in .doc; "empty" a file of no bytes; "partial" a proper prefix of a
\* document
AbsentFile == [kind |-> "absent", doc |-> <<>>]
DocFile(d) == [kind |-> "doc", doc |-> d]

\* _get_json as it would be if a missing cache file were an error
get_json_strict(cf) ==
    IF how_cache_file = None THEN [exc |-> "TypeError", doc |-> <<>>]
    ELSE IF cf.kind = "absent" THEN [exc |-> "FileNotFoundError", doc |-> <<>>]
    ELSE IF cf.kind = "doc" THEN [exc |-> "none", doc |-> cf.doc]
    ELSE [exc |-> "JSONDecodeError", doc |-> <<>>]

\* _get_json: the dict read, or the exception Path(self.cache_file) or
\* json.load raises
get_json(cf) ==
    IF how_cache_file = None THEN [exc |-> "TypeError", doc |-> <<>>]
    ELSE IF cf.kind = "absent" THEN [exc |-> "none", doc |-> <<>>]
    ELSE IF cf.kind = "doc" THEN [exc |-> "none", doc |-> cf.doc]
    ELSE [exc |-> "JSONDecodeError", doc |-> <<>>]

get_key_no_alias(output_file, output_alt_path_key) == Resolve(output_file)

get_key(output_file, output_alt_path_key) ==
    IF output_alt_path_key = None THEN Resolve(output_file)
    ELSE Resolve(output_alt_path_key)

RECURSIVE compare_loop(_, _, _)
compare_loop(input_files, i, output_mtime) ==
    IF i > Len(input_files) THEN "False"
    ELSE IF ~Exists(input_files[i]) THEN "FileNotFoundError"
    ELSE IF Mtime(input_files[i]) > output_mtime THEN "True"
    ELSE compare_loop(input_files, i + 1, output_mtime)

compare_mtimes_or_equal(input_files, output_file) ==
    IF ~Exists(output_file) THEN "FileNotFoundError"
    ELSE IF \E i \in DOMAIN input_files :
                Exists(input_files[i]) /\ Mtime(input_files[i]) >= Mtime(output_file)
        THEN "True" ELSE "False"

\* _compare_mtimes: "True", "False", or the exception stat() raises
compare_mtimes(input_files, output_file) ==
    IF ~Exists(output_file) THEN "FileNotFoundError"
    ELSE compare_loop(input_files, 1, Mtime(output_file))

UpdateByMtime_is_update_required(input_files, output_file, output_alt_path_key) ==
    compare_mtimes(input_files, output_file)

\* the set comprehension of line 56
current_files(input_files) == {Resolve(input_files[i]) : i \in DOMAIN input_files}

mtimes_only(input_files, output_file, output_alt_path_key) ==
    compare_mtimes(input_files, output_file)

UpdateByMtimeAndExistance_is_update_required(input_files, output_file, output_alt_path_key) ==
    LET cached_list == get_json(cache_file)
        key == get_key(output_file, output_alt_path_key)
        previous_files ==
            IF key \in DOMAIN cached_list.doc THEN Range(cached_list.doc[key]) ELSE {}
    IN  IF cached_list.exc # "none" THEN cached_list.exc
        ELSE IF previous_files # current_files(input_files) THEN "True"
        ELSE compare_mtimes(input_files, output_file)

is_update_required(m, input_files, output_file, output_alt_path_key) ==
    IF m = "UpdateByMtime"
    THEN UpdateByMtime_is_update_required(input_files, output_file, output_alt_path_key)
    ELSE UpdateByMtimeAndExistance_is_update_required(input_files, output_file,
                                                      output_alt_path_key)

cached_entry_unresolved(input_files) == sorted(input_files)

\* the list stored by line 67
cached_entry(input_files) ==
    sorted([i \in DOMAIN input_files |-> Resolve(input_files[i])])

\* the assignment as it would be if the document were started afresh
Put_alone(d, key, value) == [k \in {key} |-> value]

\* cached_list[key] = value
Put(d, key, value) ==
    [k \in DOMAIN d \cup {key} |-> IF k = key THEN value ELSE d[k]]

\* UpdateByMtimeAndExistance.update_cache run to completion on the cache
\* file cf: the file it leaves, or the exception it raises before opening it
UpdateByMtimeAndExistance_update_cache(cf, input_files, output_file, output_alt_path_key) ==
    LET cached_list == get_json(cf)
        key == get_key(output_file, output_alt_path_key)
    IN  IF cached_list.exc # "none"
        THEN [exc |-> cached_list.exc, file |-> cf]
        ELSE [exc |-> "none",
              file |-> DocFile(Put(cached_list.doc, key, cached_entry(input_files)))]

update_cache(m, cf, input_files, output_file, output_alt_path_key) ==
    IF m = "UpdateByMtime" THEN [exc |-> "none", file |-> cf]
    ELSE UpdateByMtimeAndExistance_update_cache(cf, input_files, output_file,
                                                output_alt_path_key)

\* Dependency.is_out_of_date
is_out_of_date(input_files, output_file, m, output_alt_path_key) ==
    IF ~Exists(output_file) THEN "True"
    ELSE is_update_required(m, input_files, output_file, output_alt_path_key)

\* Dependency.mark_updated
mark_updated(cf, input_files, output_file, m, output_alt_path_key) ==
    update_cache(m, cf, input_files, output_file, output_alt_path_key)

\* TreeNode(file, depends_on)
TreeNode(file, depends_on) == [file |-> file, depends_on |-> Range(depends_on)]

(***************************************************************************)
(* What the caller sees                                                    *)
(***************************************************************************)
\* op: the method called; res: "ok", a returned bool as "True"/"False", or
\* the exception raised; val: a returned sequence; args: the arguments
Call(op, res, val, args) == [op |-> op, res |-> res, val |-> val, args |-> args]
NoCall == Call("none", "ok", <<>>, <<>>)

Classes == {"UpdateByMtime", "UpdateByMtimeAndExistance"}

\* the processes that share one cache file
Procs == {"p1", "p2"}
\* a process outside update_cache; inside it, pc is "loaded" after line 67,
\* "opened" after line 68, "writing" once part of the document is on disk,
\* and key and doc are its locals key and cached_list
IdleProc == [pc |-> "idle", key |-> <<>>, doc |-> <<>>]
IdleWriter == [p \in Procs |-> IdleProc]
IdleTokenizer == [pattern |-> <<>>, index |-> 0, group |-> 1]
\* dep before any constructor call has returned
NoObject == [bound |-> FALSE, to_file |-> <<>>]
\* committed before any set_files_updated has recorded anything
Never == [to_file |-> <<>>, input_files |-> <<>>]

\* the cache_file argument the caller builds UpdateByMtimeAndExistance with
cache_path == <<"c">>

\* the state once the caller has built its policy and relation objects, in
\* an empty directory with no cache file
Init ==
    /\ fs = [c \in AllFiles |-> 0]
    /\ cache_file = AbsentFile
    /\ how \in Classes
    /\ rel = NoObject
    /\ ret = NoCall
    /\ writer = IdleWriter
    /\ tokenizer = IdleTokenizer
    /\ committed = Never
    /\ how_cache_file = cache_path
    /\ recorded = [by |-> {}, doc |-> <<>>]

\* some process writes (creates or modifies) a file of F, giving it mtime t
FsWrite(F) ==
    /\ \E n \in F, t \in 1..MaxTime :
        /\ fs[Resolve(n)] # t
        /\ fs' = [fs EXCEPT ![Resolve(n)] = t]
    /\ ret' = NoCall
    /\ UNCHANGED <<cache_file, how, rel, writer, tokenizer, committed, how_cache_file, recorded>>

\* some process removes a file of F
FsRemove(F) ==
    /\ \E n \in F :
        /\ fs[Resolve(n)] > 0
        /\ fs' = [fs EXCEPT ![Resolve(n)] = 0]
    /\ ret' = NoCall
    /\ UNCHANGED <<cache_file, how, rel, writer, tokenizer, committed, how_cache_file, recorded>>

(***************************************************************************)
(* ManyToOnePatternDependency("s?", "o", how=how)                          *)
(***************************************************************************)
from_pattern == <<"s", "?">>
m2o_to_file == <<"o">>
FilesManyToOne == { <<"s","a">>, <<"s","b">>, <<"o">> }

\* ManyToOnePatternDependency.iter_files, for one order of the glob
m2o_iter_files(input_files) ==
    [i \in DOMAIN input_files |-> <<input_files[i], m2o_to_file>>]

\* Dependency.get_input_output_files over the pairs iter_files yields
get_input_output_files(pairs) ==
    [input_files |-> sorted(CHOOSE s \in Orderings({pairs[i][1] : i \in DOMAIN pairs}) : TRUE),
     output_files |-> sorted(CHOOSE s \in Orderings({pairs[i][2] : i \in DOMAIN pairs}) : TRUE)]

\* the value of ManyToOnePatternDependency.get_files_to_update
m2o_files_to_update(input_files) ==
    LET r == is_out_of_date(input_files, m2o_to_file, how, None)
    IN  IF r = "True"
        THEN Call("ManyToOne.get_files_to_update", "ok",
                  <<TreeNode(m2o_to_file, input_files)>>, <<>>)
        ELSE IF r = "False" THEN Call("ManyToOne.get_files_to_update", "ok", <<>>, <<>>)
        ELSE Call("ManyToOne.get_files_to_update", r, <<>>, <<>>)

ManyToOne_get_files_to_update ==
    /\ \E input_files \in Orderings(Glob(from_pattern)) :
        ret' = m2o_files_to_update(input_files)
    /\ UNCHANGED <<fs, cache_file, how, rel, writer, tokenizer, committed, how_cache_file, recorded>>

ManyToOne_get_dependency_pairs ==
    /\ \E input_files \in Orderings(Glob(from_pattern)) :
        ret' = Call("ManyToOne.get_dependency_pairs", "ok", m2o_iter_files(input_files), <<>>)
    /\ UNCHANGED <<fs, cache_file, how, rel, writer, tokenizer, committed, how_cache_file, recorded>>

ManyToOne_set_files_updated ==
    /\ \E input_files \in Orderings(Glob(from_pattern)) :
        LET io == get_input_output_files(m2o_iter_files(input_files))
        IN  IF io.output_files = <<>>
            THEN /\ ret' = Call("ManyToOne.set_files_updated", "IndexError", <<>>, <<>>)
                 /\ UNCHANGED cache_file
            ELSE LET u == mark_updated(cache_file, io.input_files, io.output_files[1], how, None)
                 IN  /\ cache_file' = u.file
                     /\ ret' = Call("ManyToOne.set_files_updated",
                                    IF u.exc = "none" THEN "ok" ELSE u.exc, <<>>, <<>>)
    /\ UNCHANGED <<fs, how, rel, writer, tokenizer, committed, how_cache_file, recorded>>

NextManyToOne ==
    \/ FsWrite(FilesManyToOne)
    \/ FsRemove(FilesManyToOne)
    \/ ManyToOne_get_files_to_update
    \/ ManyToOne_get_dependency_pairs
    \/ ManyToOne_set_files_updated

SpecManyToOne == Init /\ [][NextManyToOne]_vars

\* C1: whenever the input glob matches no file, ManyToOne's
\* get_dependency_pairs and get_files_to_update both return an empty
\* sequence, whether or not the output exists and whatever its age
C1_ManyToOneVacuous ==
    (/\ ret.op \in {"ManyToOne.get_files_to_update", "ManyToOne.get_dependency_pairs"}
     /\ Glob(from_pattern) = {})
    => (ret.res = "ok" /\ ret.val = <<>>)

\* C17: ManyToOne's set_files_updated returns without raising; with matched
\* inputs it records them all, once, under the output's key, and with none
\* matched it records nothing
C17_CommitPerEdgeGroup ==
    (ret.op = "ManyToOne.set_files_updated")
    => /\ ret.res = "ok"
       /\ (Glob(from_pattern) # {} /\ how = "UpdateByMtimeAndExistance")
            => /\ cache_file.kind = "doc"
               /\ Resolve(m2o_to_file) \in DOMAIN cache_file.doc
               /\ Range(cache_file.doc[Resolve(m2o_to_file)])
                    = {Resolve(f) : f \in Glob(from_pattern)}
       /\ (Glob(from_pattern) = {} /\ cache_file.kind = "doc")
            => (cache_file.doc[Resolve(m2o_to_file)] # <<>>)

(***************************************************************************)
(* The policies called directly                                            *)
(***************************************************************************)
\* the longest input_files sequence a direct call passes
MaxInputs == 2

FilesPolicy == { <<"a">>, <<"b">>, <<"o">> }
\* the spellings a caller may use for the inputs
InputSpellings == { <<"a">>, <<".","/","a">>, <<"b">> }
\* input_files as a caller lists them: no spelling twice, in any order
InputSeqs ==
    UNION {Orderings(S) : S \in {T \in SUBSET InputSpellings : Cardinality(T) <= MaxInputs}}
policy_output == <<"o">>
AltKeys == {None, <<"k">>}

UpdateByMtime_is_update_required_call ==
    /\ \E input_files \in InputSeqs, alt \in AltKeys :
        ret' = Call("UpdateByMtime.is_update_required",
                    UpdateByMtime_is_update_required(input_files, policy_output, alt),
                    <<>>, <<input_files, policy_output, alt>>)
    /\ UNCHANGED <<fs, cache_file, how, rel, writer, tokenizer, committed, how_cache_file, recorded>>

\* UpdateByMtime.update_cache: pass
UpdateByMtime_update_cache_call ==
    /\ \E input_files \in InputSeqs, alt \in AltKeys :
        ret' = Call("UpdateByMtime.update_cache", "ok",
                    <<>>, <<input_files, policy_output, alt>>)
    /\ UNCHANGED <<fs, cache_file, how, rel, writer, tokenizer, committed, how_cache_file, recorded>>

UpdateByMtimeAndExistance_is_update_required_call ==
    /\ \E input_files \in InputSeqs, alt \in AltKeys :
        ret' = Call("UpdateByMtimeAndExistance.is_update_required",
                    UpdateByMtimeAndExistance_is_update_required(input_files,
                                                                 policy_output, alt),
                    <<>>, <<input_files, policy_output, alt>>)
    /\ UNCHANGED <<fs, cache_file, how, rel, writer, tokenizer, committed, how_cache_file, recorded>>

UpdateByMtimeAndExistance_update_cache_call ==
    /\ \E input_files \in InputSeqs, alt \in AltKeys :
        LET u == UpdateByMtimeAndExistance_update_cache(cache_file, input_files,
                                                        policy_output, alt)
        IN  /\ cache_file' = u.file
            /\ ret' = Call("UpdateByMtimeAndExistance.update_cache",
                           IF u.exc = "none" THEN "ok" ELSE u.exc,
                           <<>>, <<input_files, policy_output, alt>>)
    /\ UNCHANGED <<fs, how, rel, writer, tokenizer, committed, how_cache_file, recorded>>

\* Dependency.is_out_of_date(input_files, output_file) with the default how
Dependency_is_out_of_date_call ==
    /\ \E input_files \in InputSeqs :
        ret' = Call("Dependency.is_out_of_date",
                    is_out_of_date(input_files, policy_output, "UpdateByMtime", None),
                    <<>>, <<input_files, policy_output, None>>)
    /\ UNCHANGED <<fs, cache_file, how, rel, writer, tokenizer, committed, how_cache_file, recorded>>

\* UpdateByMtimeAndExistance.__init__ as it would be if the missing
\* cache_file were only noticed when the cache is first read
init_lazy(cf) == [exc |-> "none", cache_file |-> cf]

\* UpdateByMtimeAndExistance.__init__(cache_file): the exception it raises,
\* or the cache_file attribute of the object it returns
UpdateByMtimeAndExistance_init(cf) ==
    IF cf = None THEN [exc |-> "TypeError", cache_file |-> None]
    ELSE [exc |-> "none", cache_file |-> cf]

\* the caller replaces its policy object by UpdateByMtimeAndExistance(cf);
\* when the constructor raises, it keeps the object it had
UpdateByMtimeAndExistance_init_call ==
    /\ \E cf \in {None, cache_path} :
        LET o == UpdateByMtimeAndExistance_init(cf)
        IN  /\ how_cache_file' = IF o.exc = "none" THEN o.cache_file ELSE how_cache_file
            /\ ret' = Call("UpdateByMtimeAndExistance.__init__",
                           IF o.exc = "none" THEN "ok" ELSE o.exc, <<>>, <<cf>>)
    /\ UNCHANGED <<fs, cache_file, how, rel, writer, tokenizer, committed, recorded>>

InitPolicy == Init /\ how = "UpdateByMtime"

NextMtime ==
    \/ FsWrite(FilesPolicy)
    \/ FsRemove(FilesPolicy)
    \/ UpdateByMtime_is_update_required_call
    \/ UpdateByMtime_update_cache_call
    \/ Dependency_is_out_of_date_call

SpecMtime == InitPolicy /\ [][NextMtime]_vars

NextPolicy ==
    \/ FsWrite(FilesPolicy)
    \/ FsRemove(FilesPolicy)
    \/ UpdateByMtimeAndExistance_init_call
    \/ UpdateByMtimeAndExistance_is_update_required_call
    \/ UpdateByMtimeAndExistance_update_cache_call

SpecPolicy == InitPolicy /\ [][NextPolicy]_vars

\* the arguments of the last direct policy call
ArgInputs == ret.args[1]
ArgOutput == ret.args[2]
ArgAlt == ret.args[3]
ArgKey == IF ArgAlt = None THEN Resolve(ArgOutput) ELSE Resolve(ArgAlt)
\* the input set the persisted map records for the call's cache key
Recorded ==
    IF cache_file.kind = "doc" /\ ArgKey \in DOMAIN cache_file.doc
    THEN Range(cache_file.doc[ArgKey]) ELSE {}
AllInputsExist == \A i \in DOMAIN ArgInputs : Exists(ArgInputs[i])
SomeInputNewer ==
    \E i \in DOMAIN ArgInputs :
        Exists(ArgInputs[i]) /\ Mtime(ArgInputs[i]) > Mtime(ArgOutput)

\* C2: UpdateByMtimeAndExistance.is_update_required returns True whenever
\* the set of canonical current input paths differs from the set recorded
\* for the cache key, whatever the modification times are
C2_SetDeltaForcesUpdate ==
    (/\ ret.op = "UpdateByMtimeAndExistance.is_update_required"
     /\ Recorded # {Resolve(ArgInputs[i]) : i \in DOMAIN ArgInputs})
    => ret.res = "True"

\* C2 witness: recorded {a}, current {a, b}, both older than the output
C2_Witness ==
    /\ ret.op = "UpdateByMtimeAndExistance.is_update_required"
    /\ Recorded = {<<"/", "a">>}
    /\ Range(ArgInputs) = {<<"a">>, <<"b">>}
    /\ Exists(ArgOutput) /\ AllInputsExist /\ ~SomeInputNewer
    /\ Mtime(<<"a">>) < Mtime(ArgOutput) /\ Mtime(<<"b">>) < Mtime(ArgOutput)
    /\ ret.res = "True"

\* C3 as stated: UpdateByMtime.is_update_required returns True if the output
\* does not exist, and otherwise True exactly when some input is strictly
\* newer than the output
C3_Original ==
    ret.op = "UpdateByMtime.is_update_required"
    => ret.res = (IF ~Exists(ArgOutput) \/ SomeInputNewer THEN "True" ELSE "False")

\* C3 amended: for inputs that exist, Dependency.is_out_of_date with
\* UpdateByMtime returns True if the output does not exist and otherwise True
\* exactly when some input is strictly newer (equal times are not stale);
\* UpdateByMtime.is_update_required agrees with it when the output exists
\* and raises FileNotFoundError when it does not
C3_Amended ==
    /\ (ret.op = "Dependency.is_out_of_date" /\ AllInputsExist)
       => ret.res = (IF ~Exists(ArgOutput) \/ SomeInputNewer THEN "True" ELSE "False")
    /\ (ret.op = "UpdateByMtime.is_update_required" /\ AllInputsExist /\ Exists(ArgOutput))
       => ret.res = (IF SomeInputNewer THEN "True" ELSE "False")
    /\ (ret.op = "UpdateByMtime.is_update_required" /\ ~Exists(ArgOutput))
       => ret.res = "FileNotFoundError"

\* C3 witness: an input exactly as old as the output is not stale
C3_Witness ==
    /\ ret.op = "Dependency.is_out_of_date"
    /\ ArgInputs # <<>> /\ AllInputsExist /\ Exists(ArgOutput)
    /\ \E i \in DOMAIN ArgInputs : Mtime(ArgInputs[i]) = Mtime(ArgOutput)
    /\ ret.res = "False"

\* C5: when the entry of the call's cache key is the one
\* update_cache(I, o, k) writes, is_update_required(I, o, k) returns what
\* UpdateByMtime returns for (I, o), so False when o exists and no input of I
\* is strictly newer than o
C5_CommitCheckRoundTrip ==
    (/\ ret.op = "UpdateByMtimeAndExistance.is_update_required"
     /\ cache_file.kind = "doc"
     /\ ArgKey \in DOMAIN cache_file.doc
     /\ cache_file.doc[ArgKey] =
            UpdateByMtimeAndExistance_update_cache(cache_file, ArgInputs, ArgOutput,
                                                   ArgAlt).file.doc[ArgKey])
    => /\ ret.res = UpdateByMtime_is_update_required(ArgInputs, ArgOutput, ArgAlt)
       /\ (Exists(ArgOutput) /\ AllInputsExist /\ ~SomeInputNewer) => ret.res = "False"

\* C5 witness: the round trip for two spellings of one input, under an alias key
C5_Witness ==
    /\ ret.op = "UpdateByMtimeAndExistance.is_update_required"
    /\ ArgInputs = << <<".", "/", "a">>, <<"b">> >>
    /\ ArgAlt = <<"k">>
    /\ cache_file.kind = "doc"
    /\ ArgKey \in DOMAIN cache_file.doc
    /\ cache_file.doc[ArgKey] = << <<"/", "a">>, <<"/", "b">> >>
    /\ ret.res = "False"

\* the cache key of a call with arguments args
KeyOf(args) == IF args[3] = None THEN Resolve(args[2]) ELSE Resolve(args[3])
\* a sequence of paths in ascending order of str
Ascending(paths) ==
    \A i \in 1..(Len(paths) - 1) : paths[i] = paths[i + 1] \/ StrLess(paths[i], paths[i + 1])
\* a path as Path.resolve() writes it
Canonical(path) == path # <<>> /\ Head(path) = "/" /\ Resolve(path) = path
\* entry holds the canonical forms of input_files, one each, in ascending order
SortedCanonicalOf(entry, input_files) ==
    /\ Len(entry) = Len(input_files)
    /\ Range(entry) = {Resolve(input_files[i]) : i \in DOMAIN input_files}
    /\ \A c \in Range(entry) :
        Cardinality({i \in DOMAIN entry : entry[i] = c})
            = Cardinality({i \in DOMAIN input_files : Resolve(input_files[i]) = c})
    /\ Ascending(entry)

\* C16: with no cache file, is_update_required raises nothing on account of
\* the cache and answers as for a key with no recorded inputs (True for any
\* non-empty input list, the comparison of modification times for the empty
\* one), and update_cache creates the document with the one new entry only
C16_MissingCacheIsEmptyMap ==
    [][(cache_file = AbsentFile)
       => /\ (ret'.op = "UpdateByMtimeAndExistance.is_update_required")
               => /\ (ret'.args[1] # <<>>) => (ret'.res = "True")
                  /\ (ret'.args[1] = <<>>)
                       => (ret'.res = IF Exists(ret'.args[2]) THEN "False"
                                      ELSE "FileNotFoundError")
          /\ (ret'.op = "UpdateByMtimeAndExistance.update_cache")
               => /\ ret'.res = "ok"
                  /\ cache_file'.kind = "doc"
                  /\ DOMAIN cache_file'.doc = {KeyOf(ret'.args)}
                  /\ SortedCanonicalOf(cache_file'.doc[KeyOf(ret'.args)], ret'.args[1])]_vars

\* with no cache file, inputs that exist and are not newer than the output
\* are reported stale
C16_Witness ==
    /\ ret.op = "UpdateByMtimeAndExistance.is_update_required"
    /\ cache_file = AbsentFile
    /\ ArgInputs # <<>>
    /\ AllInputsExist
    /\ Exists(ArgOutput)
    /\ ~SomeInputNewer
    /\ ret.res = "True"

\* C18: UpdateByMtimeAndExistance(None) raises TypeError in the constructor
\* and gives no object, so the caller never holds a policy without a cache
\* file and no is_update_required or update_cache call is where the missing
\* cache file shows
C18_NoLazyConfigurationError ==
    [][/\ (ret'.op = "UpdateByMtimeAndExistance.__init__" /\ ret'.args[1] = None)
           => (ret'.res = "TypeError" /\ how_cache_file' = how_cache_file)
       /\ how_cache_file' # None
       /\ (ret'.op \in {"UpdateByMtimeAndExistance.is_update_required",
                        "UpdateByMtimeAndExistance.update_cache"})
           => (ret'.res # "TypeError")]_vars

\* the constructor was called without a cache file and raised
C18_Witness ==
    /\ ret.op = "UpdateByMtimeAndExistance.__init__"
    /\ ret.args[1] = None
    /\ ret.res = "TypeError"
    /\ how_cache_file = cache_path

\* C20: every entry of the persisted map is an ascending sequence of
\* canonical paths, and an update_cache that returns sets the entry of its own
\* key to the sorted canonical form of its inputs and leaves every other
\* entry as it was
C20_SortedEntriesAndFrame ==
    /\ [](/\ (cache_file.kind = "doc")
             => \A k \in DOMAIN cache_file.doc :
                  /\ Ascending(cache_file.doc[k])
                  /\ \A i \in DOMAIN cache_file.doc[k] : Canonical(cache_file.doc[k][i])
          /\ (ret.op = "UpdateByMtimeAndExistance.update_cache" /\ ret.res = "ok")
             => /\ cache_file.kind = "doc"
                /\ ArgKey \in DOMAIN cache_file.doc
                /\ SortedCanonicalOf(cache_file.doc[ArgKey], ArgInputs))
    /\ [][(ret'.op = "UpdateByMtimeAndExistance.update_cache" /\ ret'.res = "ok")
           => LET key == KeyOf(ret'.args)
                  old == IF cache_file.kind = "doc" THEN DOMAIN cache_file.doc ELSE {}
              IN  /\ DOMAIN cache_file'.doc = old \cup {key}
                  /\ \A k \in old \ {key} : cache_file'.doc[k] = cache_file.doc[k]]_vars

\* an entry of two inputs was recorded beside the entry of another key
C20_Witness ==
    /\ ret.op = "UpdateByMtimeAndExistance.update_cache"
    /\ ret.res = "ok"
    /\ cache_file.kind = "doc"
    /\ Cardinality(DOMAIN cache_file.doc) = 2
    /\ Len(cache_file.doc[ArgKey]) = 2
    /\ \E k \in DOMAIN cache_file.doc : k # ArgKey /\ cache_file.doc[k] # <<>>

(***************************************************************************)
(* _PatternTokenizer and _PatternParser                                    *)
(***************************************************************************)
\* what curr_char, peek and eat return at the end of the pattern
NoChar == "None"

\* _PatternTokenizer.curr_char, index counted from 0
curr_char(pattern, index) ==
    IF index < Len(pattern) THEN pattern[index + 1] ELSE NoChar

regex_only_chars == {"$", "^"}
special_chars == regex_only_chars \cup {"{", "%"}

\* pattern[a:b]
Slice(pattern, a, b) == SubSeq(pattern, a + 1, b)

DigitChars == <<"0", "1", "2", "3", "4", "5", "6", "7", "8", "9">>
RECURSIVE DecStr(_)
\* '{}'.format(n) for n >= 0
DecStr(n) ==
    IF n < 10 THEN <<DigitChars[n + 1]>>
    ELSE DecStr(n \div 10) \o <<DigitChars[(n % 10) + 1]>>

\* the characters re.escape puts a backslash before (Python 3.7 and later)
re_escaped_chars ==
    {"(", ")", "[", "]", "{", "}", "?", "*", "+", "-", "|", "^", "$", "\\", ".",
     "&", "~", "#", " "}

RECURSIVE re_escape(_)
re_escape(s) ==
    IF s = <<>> THEN <<>>
    ELSE (IF Head(s) \in re_escaped_chars THEN <<"\\", Head(s)>> ELSE <<Head(s)>>)
         \o re_escape(Tail(s))

\* _Token(type, re_value, sub_value, glob_value=None)
Token(type, re_value, sub_value) ==
    [type |-> type, re_value |-> re_value, sub_value |-> sub_value,
     glob_value |-> sub_value]
TokenG(type, re_value, sub_value, glob_value) ==
    [type |-> type, re_value |-> re_value, sub_value |-> sub_value,
     glob_value |-> glob_value]

\* what a tokenizer method leaves: the exception raised ("none" if none) with
\* the index ParsingError reports and the index its message names after
\* "from index" (-1 when the message names none), the token returned, and
\* the new index and group
Scan(exc, token, index, group) ==
    [exc |-> exc, token |-> token, index |-> index, group |-> group, from |-> -1]
NoToken == Token("EOF", <<>>, <<>>)

RECURSIVE sub_loop_depth1(_, _, _, _)
\* the loop as it would be if only commas at the unit's own depth counted
sub_loop_depth1(pattern, i, nopen, comma) ==
    IF nopen <= 0 THEN [exc |-> "none", index |-> i, comma |-> comma]
    ELSE LET c == curr_char(pattern, i)
             j == IF c = NoChar THEN i ELSE i + 1
         IN  IF c = NoChar THEN [exc |-> "unterminated", index |-> j, comma |-> comma]
             ELSE IF c = "{" THEN sub_loop_depth1(pattern, j, nopen + 1, comma)
             ELSE IF c = "}" THEN sub_loop_depth1(pattern, j, nopen - 1, comma)
             ELSE IF c = "," /\ nopen = 1 /\ comma = -1
                 THEN sub_loop_depth1(pattern, j, nopen, j - 1)
             ELSE IF c = "," /\ nopen = 1
                 THEN [exc |-> "second comma", index |-> j, comma |-> comma]
             ELSE IF c = "\\" /\ curr_char(pattern, j) = ","
                 THEN sub_loop_depth1(pattern, j + 1, nopen, comma)
             ELSE sub_loop_depth1(pattern, j, nopen, comma)

RECURSIVE sub_loop(_, _, _, _)
\* the while loop of _get_sub_token from self.index = i; comma is -1 for None
sub_loop(pattern, i, nopen, comma) ==
    IF nopen <= 0 THEN [exc |-> "none", index |-> i, comma |-> comma]
    ELSE LET c == curr_char(pattern, i)
             j == IF c = NoChar THEN i ELSE i + 1
         IN  IF c = NoChar THEN [exc |-> "unterminated", index |-> j, comma |-> comma]
             ELSE IF c = "{" THEN sub_loop(pattern, j, nopen + 1, comma)
             ELSE IF c = "}" THEN sub_loop(pattern, j, nopen - 1, comma)
             ELSE IF c = "," /\ comma = -1 THEN sub_loop(pattern, j, nopen, j - 1)
             ELSE IF c = "," THEN [exc |-> "second comma", index |-> j, comma |-> comma]
             ELSE IF c = "\\" /\ curr_char(pattern, j) = ","
                 THEN sub_loop(pattern, j + 1, nopen, comma)
             ELSE sub_loop(pattern, j, nopen, comma)

\* _get_sub_token as it would be if the error at the end of the pattern
\* reported the index of the opening brace
get_sub_token_at_brace(pattern, index, group) ==
    LET start == index
        l == sub_loop(pattern, index + 1, 1, -1)
        end == l.index
    IN  IF l.exc = "unterminated"
        THEN [Scan(l.exc, NoToken, start, group) EXCEPT !.from = start]
        ELSE IF l.exc # "none" THEN Scan(l.exc, NoToken, l.index, group)
        ELSE IF l.comma = -1 THEN Scan("no comma", NoToken, end, group)
        ELSE Scan("none",
                  Token("SUB", Slice(pattern, start + 1, l.comma),
                        Slice(pattern, l.comma + 1, end - 1)),
                  end, group)

get_sub_token(pattern, index, group) ==
    LET start == index
        l == sub_loop(pattern, index + 1, 1, -1)
        end == l.index
    IN  IF l.exc = "unterminated"
        THEN [Scan(l.exc, NoToken, l.index, group) EXCEPT !.from = start]
        ELSE IF l.exc # "none" THEN Scan(l.exc, NoToken, l.index, group)
        ELSE IF l.comma = -1 THEN Scan("no comma", NoToken, end, group)
        ELSE Scan("none",
                  Token("SUB", Slice(pattern, start + 1, l.comma),
                        Slice(pattern, l.comma + 1, end - 1)),
                  end, group)

get_group_token(pattern, index, group) ==
    Scan("none",
         TokenG("GROUP", <<"(", ".", "*", ")">>, <<"\\">> \o DecStr(group), <<"*">>),
         index + 1, group + 1)

get_regex_token(pattern, index, group) ==
    Scan("none", Token("RE_ONLY", <<curr_char(pattern, index)>>, <<>>), index + 1, group)

RECURSIVE string_end(_, _)
\* where the loop of _get_string_token stops, from self.index = i
string_end(pattern, i) ==
    IF i >= Len(pattern) \/ curr_char(pattern, i) \in special_chars THEN i
    ELSE string_end(pattern, i + 1)

get_string_token(pattern, index, group) ==
    LET end == string_end(pattern, index + 1)
        str == Slice(pattern, index, end)
    IN  Scan("none", Token("STRING", re_escape(str), str), end, group)

\* _PatternTokenizer.next_token
next_token(pattern, index, group) ==
    LET c == curr_char(pattern, index)
    IN  IF c = NoChar THEN Scan("none", NoToken, index, group)
        ELSE IF c = "{" THEN get_sub_token(pattern, index, group)
        ELSE IF c = "%" THEN get_group_token(pattern, index, group)
        ELSE IF c \in regex_only_chars THEN get_regex_token(pattern, index, group)
        ELSE get_string_token(pattern, index, group)

RECURSIVE parse_loop(_, _, _, _, _, _)
\* the for loop of _PatternParser.parse with the three lists joined
parse_loop(pattern, index, group, re_parts, sub_parts, glob_parts) ==
    LET n == next_token(pattern, index, group)
    IN  IF n.exc # "none"
        THEN [exc |-> n.exc, index |-> n.index, group |-> n.group, from |-> n.from,
              regex |-> <<>>, subst |-> <<>>, glob |-> <<>>]
        ELSE IF n.token.type = "EOF"
        THEN [exc |-> "none", index |-> n.index, group |-> n.group, from |-> -1,
              regex |-> re_parts, subst |-> sub_parts, glob |-> glob_parts]
        ELSE parse_loop(pattern, n.index, n.group,
                        re_parts \o n.token.re_value,
                        sub_parts \o n.token.sub_value,
                        glob_parts \o n.token.glob_value)

\* parse() as it would be if the loop went on from where the tokenizer is
parse_from_current(pattern) ==
    parse_loop(pattern, tokenizer.index, tokenizer.group, <<>>, <<>>, <<>>)

\* _PatternParser(pattern).parse(): __iter__ puts index at 0 and group at 1
parse(pattern) == parse_loop(pattern, 0, 1, <<>>, <<>>, <<>>)

(***************************************************************************)
(* re.sub for the regexes the parser produces                              *)
(***************************************************************************)
RECURSIVE regex_elems(_)
\* the regex as a sequence of elements: an escaped or plain literal, "." any
\* character, the group (.*), the anchors; any other use of ( ) * is "other"
regex_elems(re) ==
    IF re = <<>> THEN <<>>
    ELSE IF Head(re) = "\\" /\ Len(re) >= 2
        THEN <<[k |-> "lit", c |-> re[2]]>> \o regex_elems(Tail(Tail(re)))
    ELSE IF Len(re) >= 4 /\ SubSeq(re, 1, 4) = <<"(", ".", "*", ")">>
        THEN <<[k |-> "group", c |-> ""]>> \o regex_elems(SubSeq(re, 5, Len(re)))
    ELSE IF Head(re) = "." THEN <<[k |-> "any", c |-> ""]>> \o regex_elems(Tail(re))
    ELSE IF Head(re) = "^" THEN <<[k |-> "bol", c |-> ""]>> \o regex_elems(Tail(re))
    ELSE IF Head(re) = "$" THEN <<[k |-> "eol", c |-> ""]>> \o regex_elems(Tail(re))
    ELSE IF Head(re) \in {"(", ")", "*", "?", "+", "[", "|", "\\"}
        THEN <<[k |-> "other", c |-> Head(re)]>> \o regex_elems(Tail(re))
    ELSE <<[k |-> "lit", c |-> Head(re)]>> \o regex_elems(Tail(re))

NoMatch == [ok |-> FALSE, start |-> 0, end |-> 0, groups |-> <<>>]

RECURSIVE match_at(_, _, _, _, _, _)
RECURSIVE match_group(_, _, _, _, _, _, _)
\* the match the backtracking matcher finds first for elems[k..] at pos (a
\* position counted from 0), ending at min_end or later
match_at(elems, k, str, pos, groups, min_end) ==
    IF k > Len(elems)
    THEN IF pos >= min_end THEN [ok |-> TRUE, start |-> 0, end |-> pos, groups |-> groups]
         ELSE NoMatch
    ELSE LET e == elems[k]
         IN  IF e.k = "lit"
             THEN IF pos < Len(str) /\ str[pos + 1] = e.c
                  THEN match_at(elems, k + 1, str, pos + 1, groups, min_end) ELSE NoMatch
             ELSE IF e.k = "any"
             THEN IF pos < Len(str)
                  THEN match_at(elems, k + 1, str, pos + 1, groups, min_end) ELSE NoMatch
             ELSE IF e.k = "bol"
             THEN IF pos = 0 THEN match_at(elems, k + 1, str, pos, groups, min_end)
                  ELSE NoMatch
             ELSE IF e.k = "eol"
             THEN IF pos = Len(str) THEN match_at(elems, k + 1, str, pos, groups, min_end)
                  ELSE NoMatch
             ELSE IF e.k = "group"
             THEN match_group(elems, k, str, pos, Len(str) - pos, groups, min_end)
             ELSE NoMatch

\* (.*) is greedy: the longest run first, then shorter ones
match_group(elems, k, str, pos, n, groups, min_end) ==
    IF n < 0 THEN NoMatch
    ELSE LET m == match_at(elems, k + 1, str, pos + n,
                           Append(groups, SubSeq(str, pos + 1, pos + n)), min_end)
         IN  IF m.ok THEN m ELSE match_group(elems, k, str, pos, n - 1, groups, min_end)

RECURSIVE search(_, _, _, _)
\* the leftmost match starting at start or later; with must_advance the
\* match may not be the empty one at start
search(elems, str, start, must_advance) ==
    IF start > Len(str) THEN NoMatch
    ELSE LET m == match_at(elems, 1, str, start, <<>>,
                           IF must_advance THEN start + 1 ELSE start)
         IN  IF m.ok THEN [m EXCEPT !.start = start]
             ELSE search(elems, str, start + 1, FALSE)

RECURSIVE expand(_, _)
\* the replacement template with each \d replaced by group d
expand(template, groups) ==
    IF template = <<>> THEN <<>>
    ELSE IF Head(template) = "\\" /\ Len(template) >= 2
        THEN (IF \E d \in DOMAIN groups : DecStr(d) = <<template[2]>>
              THEN groups[CHOOSE d \in DOMAIN groups : DecStr(d) = <<template[2]>>]
              ELSE IF template[2] = "\\" THEN <<"\\">>
              ELSE <<"\\", template[2]>>)
             \o expand(Tail(Tail(template)), groups)
    ELSE <<Head(template)>> \o expand(Tail(template), groups)

RECURSIVE sub_loop_re(_, _, _, _, _, _)
\* the loop of re.sub: i is how far the input is copied, start where the
\* next search begins
sub_loop_re(elems, template, str, i, start, must_advance) ==
    LET m == search(elems, str, start, must_advance)
    IN  IF ~m.ok THEN SubSeq(str, i + 1, Len(str))
        ELSE SubSeq(str, i + 1, m.start) \o expand(template, m.groups)
             \o sub_loop_re(elems, template, str, m.end, m.end, m.end = m.start)

\* re.sub(regex, subst, str)
re_sub(regex, subst, str) == sub_loop_re(regex_elems(regex), subst, str, 0, 0, FALSE)

\* the longest pattern of the exhaustive part of Patterns
MaxPatLen == 4
PatternChars == {"%", "{", "}", ",", "\\", "^", "(", "a"}
\* "{(a),b}%"
ExGroupInUnit ==
    <<"{", "(", "a", ")", ",", "b", "}", "%">>
\* "a%{s,t}%$"
ExTwoWildcards ==
    <<"a", "%", "{", "s", ",", "t", "}", "%", "$">>
\* "{a{b,c},d}"
ExNestedComma ==
    <<"{", "a", "{", "b", ",", "c", "}", ",", "d", "}">>
\* "{{a,b}}"
ExNestedOnly ==
    <<"{", "{", "a", ",", "b", "}", "}">>
\* "{a\,b,c}"
ExEscapedComma ==
    <<"{", "a", "\\", ",", "b", ",", "c", "}">>
\* "{a,b,c}"
ExTwoCommas ==
    <<"{", "a", ",", "b", ",", "c", "}">>
\* "{a,b\,c}"
ExEscapedOutComma ==
    <<"{", "a", ",", "b", "\\", ",", "c", "}">>
\* "a/{foo,bar"
ExUnterminated ==
    <<"a", "/", "{", "f", "o", "o", ",", "b", "a", "r">>
\* "data/%.{private,public}.dat"
ExPrivatePublic ==
    <<"d", "a", "t", "a", "/", "%", ".", "{", "p", "r", "i", "v", "a", "t", "e", ",", "p", "u", "b", "l", "i", "c", "}", ".", "d", "a", "t">>
\* "%{,.o}"
ExAppend ==
    <<"%", "{", ",", ".", "o", "}">>
ExamplePatterns ==
    {ExGroupInUnit, ExTwoWildcards, ExNestedComma, ExNestedOnly,
     ExEscapedComma, ExTwoCommas, ExEscapedOutComma, ExUnterminated,
     ExPrivatePublic, ExAppend}
Patterns == UNION {[1..n -> PatternChars] : n \in 0..MaxPatLen} \cup ExamplePatterns

\* parser = _PatternParser(pattern) for some pattern
InitParse ==
    /\ Init
    /\ how = "UpdateByMtime"

PatternParser_init ==
    /\ ret.op = "none"
    /\ tokenizer = IdleTokenizer
    /\ \E pattern \in Patterns \ {<<>>} :
        tokenizer' = [pattern |-> pattern, index |-> 0, group |-> 1]
    /\ UNCHANGED <<fs, cache_file, how, rel, ret, writer, committed, how_cache_file, recorded>>

\* parser.parse()
PatternParser_parse ==
    LET p == parse(tokenizer.pattern)
    IN  /\ tokenizer' = [tokenizer EXCEPT !.index = p.index, !.group = p.group]
        /\ ret' = Call("parse", IF p.exc = "none" THEN "ok" ELSE "ParsingError",
                       <<p.regex, p.subst, p.glob>>,
                       <<tokenizer.pattern, p.index, p.exc, p.from, tokenizer.index>>)
        /\ UNCHANGED <<fs, cache_file, how, rel, writer, committed, how_cache_file, recorded>>

\* next(parser.tokenizer): one token, or StopIteration at the end
PatternTokenizer_next ==
    LET n == next_token(tokenizer.pattern, tokenizer.index, tokenizer.group)
    IN  /\ tokenizer' = [tokenizer EXCEPT !.index = n.index, !.group = n.group]
        /\ ret' = Call("next",
                       IF n.exc # "none" THEN "ParsingError"
                       ELSE IF n.token.type = "EOF" THEN "StopIteration" ELSE "ok",
                       <<n.token>>,
                       <<tokenizer.pattern, n.index, n.exc, n.from, tokenizer.index>>)
        /\ UNCHANGED <<fs, cache_file, how, rel, writer, committed, how_cache_file, recorded>>

\* the texts a wildcard stands for in the file names tried
WildTexts == {<<>>, <<"r">>, <<"r", "e", "p", "o", "r", "t">>, <<"s">>}

RECURSIVE Render(_, _, _, _, _)
\* a pattern that compiles, written out from index with text w[N] for the
\* N-th wildcard and, for a unit {X,Y}, X on the "in" side and Y on the "out"
\* side
Render(pattern, index, group, w, side) ==
    LET n == next_token(pattern, index, group)
        t == n.token
    IN  IF n.exc # "none" \/ t.type = "EOF" THEN <<>>
        ELSE (IF t.type = "STRING" THEN t.sub_value
              ELSE IF t.type = "GROUP" THEN w[group]
              ELSE IF t.type = "SUB" THEN (IF side = "in" THEN t.re_value ELSE t.sub_value)
              ELSE <<>>)
             \o Render(pattern, n.index, n.group, w, side)

RECURSIVE Count(_, _)
\* how many times character c occurs in s
Count(s, c) ==
    IF s = <<>> THEN 0 ELSE (IF Head(s) = c THEN 1 ELSE 0) + Count(Tail(s), c)

\* one text for each wildcard of the pattern
WildAssignments(pattern) == [1..Count(pattern, "%") -> WildTexts]

\* the to_patterns whose output names are computed, and the file names the
\* glob of from_pattern hands to them
SubPatterns == {ExPrivatePublic, ExAppend, ExTwoWildcards}
InputNames(pattern) == {Render(pattern, 0, 1, w, "in") : w \in WildAssignments(pattern)}

\* the output name iter_files computes for one input file, with the regex
\* and substitution the constructor got from parse()
OneToOne_output_file ==
    /\ ret.op = "parse"
    /\ ret.res = "ok"
    /\ tokenizer.pattern \in SubPatterns
    /\ \E input_file \in InputNames(tokenizer.pattern) :
        ret' = Call("re.sub", "ok", <<re_sub(ret.val[1], ret.val[2], input_file)>>,
                    <<tokenizer.pattern, input_file>>)
    /\ UNCHANGED <<fs, cache_file, how, rel, writer, tokenizer, committed, how_cache_file, recorded>>

NextParse ==
    \/ PatternParser_init
    \/ PatternParser_parse
    \/ PatternTokenizer_next
    \/ OneToOne_output_file

SpecParse == InitParse /\ [][NextParse]_vars

RECURSIVE CaptureGroups(_)
\* the capture groups of a regex: its "(" that no backslash escapes
CaptureGroups(re) ==
    IF re = <<>> THEN 0
    ELSE IF Head(re) = "\\" THEN CaptureGroups(IF Len(re) >= 2 THEN Tail(Tail(re)) ELSE <<>>)
    ELSE (IF Head(re) = "(" THEN 1 ELSE 0) + CaptureGroups(Tail(re))

RECURSIVE Backrefs(_)
\* the group numbers a substitution template refers to, in order
Backrefs(t) ==
    IF Len(t) < 2 THEN <<>>
    ELSE IF Head(t) = "\\"
        THEN (IF \E d \in 1..9 : DigitChars[d + 1] = t[2]
              THEN <<CHOOSE d \in 1..9 : DigitChars[d + 1] = t[2]>> ELSE <<>>)
             \o Backrefs(Tail(Tail(t)))
    ELSE Backrefs(Tail(t))

\* C10: a pattern with N occurrences of % that compiles gives a regex with
\* exactly N capture groups and a substitution whose backreferences are
\* \1 .. \N, once each and in that order
C10_GroupsNumbered ==
    (ret.op = "parse" /\ ret.res = "ok")
    => LET N == Count(ret.args[1], "%")
       IN  /\ CaptureGroups(ret.val[1]) = N
           /\ Backrefs(ret.val[2]) = [i \in 1..N |-> i]

\* the call that ret reports: its pattern, the index and cause of its
\* ParsingError, the index the error message says the brace is from, and the
\* tokenizer's index when the call was made
ArgPattern == ret.args[1]
ArgIndex == ret.args[2]
ArgCause == ret.args[3]
ArgFrom == ret.args[4]
ArgStart == ret.args[5]

RECURSIVE UnitCommas(_, _, _, _, _)
\* the unescaped commas of the unit whose opening brace is just before index
\* i: whether the unit is closed, where it ends, how many commas are at its
\* own depth and how many at any depth
UnitCommas(pattern, i, depth, own, any) ==
    IF i >= Len(pattern) THEN [closed |-> FALSE, end |-> i, own |-> own, any |-> any]
    ELSE LET c == pattern[i + 1]
         IN  IF c = "{" THEN UnitCommas(pattern, i + 1, depth + 1, own, any)
             ELSE IF c = "}"
                 THEN IF depth = 1
                      THEN [closed |-> TRUE, end |-> i + 1, own |-> own, any |-> any]
                      ELSE UnitCommas(pattern, i + 1, depth - 1, own, any)
             ELSE IF c = "\\" /\ i + 1 < Len(pattern) /\ pattern[i + 2] = ","
                 THEN UnitCommas(pattern, i + 2, depth, own, any)
             ELSE IF c = ","
                 THEN UnitCommas(pattern, i + 1, depth,
                                 IF depth = 1 THEN own + 1 ELSE own, any + 1)
             ELSE UnitCommas(pattern, i + 1, depth, own, any)

\* next() was called at the opening brace of a unit that is closed
AtClosedUnit ==
    /\ ret.op = "next"
    /\ curr_char(ArgPattern, ArgStart) = "{"
    /\ UnitCommas(ArgPattern, ArgStart + 1, 1, 0, 0).closed

\* C11 as stated: a closed unit compiles exactly when one unescaped comma is
\* at the unit's own brace depth; none there is the missing-comma error and
\* more than one the duplicate-comma error, commas in nested braces not
\* counting either way
C11_Original ==
    AtClosedUnit
    => LET u == UnitCommas(ArgPattern, ArgStart + 1, 1, 0, 0)
       IN  /\ (ret.res = "ok") <=> (u.own = 1)
           /\ (u.own = 0) => (ArgCause = "no comma")
           /\ (u.own > 1) => (ArgCause = "second comma")

\* C11 amended: a closed unit compiles exactly when one unescaped comma lies
\* between its opening brace and the matching closing brace, at any depth;
\* none is the missing-comma error and a second one, nested or not, the
\* duplicate-comma error
C11_Amended ==
    AtClosedUnit
    => LET u == UnitCommas(ArgPattern, ArgStart + 1, 1, 0, 0)
       IN  /\ (ret.res = "ok") <=> (u.any = 1)
           /\ (u.any = 0) => (ret.res = "ParsingError" /\ ArgCause = "no comma")
           /\ (u.any > 1) => (ret.res = "ParsingError" /\ ArgCause = "second comma")

\* "{a{b,c},d}" is scanned and refused for its second comma
C11_Witness ==
    /\ AtClosedUnit
    /\ ArgPattern = ExNestedComma
    /\ ret.res = "ParsingError"
    /\ ArgCause = "second comma"

\* C12: an escaped comma is no separator and stands for a plain comma in
\* its side: "{a\,b,c}" compiles to the input side a,b (no backslash) and
\* the output side c, "{a,b\,c}" to the input side a and the output side
\* b,c, and "{a,b,c}" with two unescaped commas is a compile error
C12_EscapedCommaIsLiteral ==
    (ret.op = "parse")
    => /\ (ArgPattern = ExEscapedComma)
            => /\ ret.res = "ok"
               /\ ret.val[1] = <<"a", ",", "b">>
               /\ ret.val[2] = <<"c">>
       /\ (ArgPattern = ExEscapedOutComma)
            => /\ ret.res = "ok"
               /\ ret.val[1] = <<"a">>
               /\ ret.val[2] = <<"b", ",", "c">>
       /\ (ArgPattern = ExTwoCommas) => (ret.res = "ParsingError")

RECURSIVE InputSide(_, _, _)
\* the input-side rendering of a pattern that compiles, token by token from
\* index: a literal unchanged, * for %, X for a unit {X,Y}, nothing for ^ $
InputSide(pattern, index, group) ==
    LET n == next_token(pattern, index, group)
        t == n.token
    IN  IF n.exc # "none" \/ t.type = "EOF" THEN <<>>
        ELSE (IF t.type = "STRING" THEN t.sub_value
              ELSE IF t.type = "GROUP" THEN <<"*">>
              ELSE IF t.type = "SUB" THEN t.re_value
              ELSE <<>>)
             \o InputSide(pattern, n.index, n.group)

\* C13: the glob template of a compiled pattern is its input-side rendering;
\* a unit {X,Y} gives X to the regex and to the glob and Y to the
\* substitution only
C13_GlobIsInputSide ==
    (ret.op = "parse" /\ ret.res = "ok")
    => ret.val[3] = InputSide(ArgPattern, 0, 1)

\* the file names of the data/%.{private,public}.dat example
ReportPrivate ==
    <<"d", "a", "t", "a", "/", "r", "e", "p", "o", "r", "t", ".", "p", "r", "i", "v", "a", "t", "e", ".", "d", "a", "t">>
ReportPublic ==
    <<"d", "a", "t", "a", "/", "r", "e", "p", "o", "r", "t", ".", "p", "u", "b", "l", "i", "c", ".", "d", "a", "t">>

\* C14: data/%.{private,public}.dat maps data/report.private.dat to
\* data/report.public.dat, and in general the output name is the input name
\* with the text of each wildcard kept and X of each unit {X,Y} replaced by Y
C14_OutputFromInput ==
    (ret.op = "re.sub")
    => /\ (ArgPattern = ExPrivatePublic /\ ret.args[2] = ReportPrivate)
            => (ret.val[1] = ReportPublic)
       /\ \E w \in WildAssignments(ArgPattern) :
            /\ ret.args[2] = Render(ArgPattern, 0, 1, w, "in")
            /\ ret.val[1] = Render(ArgPattern, 0, 1, w, "out")

\* next() was called at the opening brace of a unit that the end of the
\* pattern leaves open, with no second comma met on the way
AtOpenUnit ==
    /\ ret.op = "next"
    /\ curr_char(ArgPattern, ArgStart) = "{"
    /\ LET u == UnitCommas(ArgPattern, ArgStart + 1, 1, 0, 0)
       IN  ~u.closed /\ u.any <= 1

NoResult == <<<<>>, <<>>, <<>>>>

\* C15 as stated: a pattern that ends inside an open brace is a compile error
\* with no partial result, for the cause "unterminated brace", and the
\* failing index of the error is the index of the opening brace
C15_Original ==
    /\ AtOpenUnit
        => /\ ret.res = "ParsingError"
           /\ ArgCause = "unterminated"
           /\ ArgIndex = ArgStart
    /\ (ret.op = "parse" /\ ArgCause = "unterminated")
        => /\ ret.res = "ParsingError"
           /\ ret.val = NoResult
           /\ curr_char(ArgPattern, ArgIndex) = "{"
           /\ (ArgPattern = ExUnterminated) => (ArgIndex = 2)

\* C15 amended: such a pattern is a compile error with no partial result,
\* for the cause "unterminated brace"; the failing index of the error is the
\* end of the pattern, and the cause names the index of the opening brace
C15_Amended ==
    /\ AtOpenUnit
        => /\ ret.res = "ParsingError"
           /\ ArgCause = "unterminated"
           /\ ArgIndex = Len(ArgPattern)
           /\ ArgFrom = ArgStart
    /\ (ret.op = "parse" /\ ArgCause = "unterminated")
        => /\ ret.res = "ParsingError"
           /\ ret.val = NoResult
           /\ ArgIndex = Len(ArgPattern)
           /\ curr_char(ArgPattern, ArgFrom) = "{"
           /\ ~UnitCommas(ArgPattern, ArgFrom + 1, 1, 0, 0).closed
           /\ (ArgPattern = ExUnterminated) => (ArgIndex = 10 /\ ArgFrom = 2)

\* "a/{foo,bar" was compiled and refused
C15_Witness ==
    /\ ret.op = "parse"
    /\ ArgPattern = ExUnterminated
    /\ ret.res = "ParsingError"
    /\ ArgCause = "unterminated"
    /\ ArgFrom = 2

\* C19: parse() gives what a scan of the pattern from index 0 with the
\* wildcard counter at 1 gives, wherever an earlier complete or partial scan
\* left the tokenizer, and the same as the parse() just before it on the
\* same parser
C19_HistoryFree ==
    [][(ret'.op = "parse")
       => /\ LET fresh == parse_loop(ret'.args[1], 0, 1, <<>>, <<>>, <<>>)
             IN  /\ ret'.val = <<fresh.regex, fresh.subst, fresh.glob>>
                 /\ (ret'.res = "ok") <=> (fresh.exc = "none")
          /\ (ret.op = "parse") => (ret'.val = ret.val /\ ret'.res = ret.res)]_vars

\* parse() was called in the middle of a scan, after a wildcard was read,
\* and compiled the pattern
C19_Witness ==
    /\ ret.op = "parse"
    /\ ret.res = "ok"
    /\ ArgStart > 0
    /\ ArgStart < Len(ArgPattern)
    /\ Count(Slice(ArgPattern, 0, ArgStart), "%") > 0
    /\ Count(Slice(ArgPattern, ArgStart, Len(ArgPattern)), "%") > 0

(***************************************************************************)
(* OneToOnePatternDependency("s?", "{s,t}%", how=how)                      *)
(***************************************************************************)
o2o_to_pattern == <<"{", "s", ",", "t", "}", "%">>
\* self._regex, self._subst: set by __init__ from _PatternParser(to_pattern)
o2o_regex == parse(o2o_to_pattern).regex
o2o_subst == parse(o2o_to_pattern).subst
FilesOneToOne ==
    { <<"s","a">>, <<"s","b">>, <<"t","a">>, <<"t","b">>, <<"s">>, <<"a">>, <<"b">> }

\* OneToOnePatternDependency.iter_files, for one order of the glob
o2o_iter_files(input_files) ==
    [i \in DOMAIN input_files |->
        <<input_files[i], re_sub(o2o_regex, o2o_subst, input_files[i])>>]

\* the argument of line 216, the str input_file, as is_out_of_date iterates it
as_passed(input_file) == IterStr(input_file)

RECURSIVE o2o_update_loop(_, _, _)
\* the loop of OneToOnePatternDependency.get_files_to_update over pairs[i..]
o2o_update_loop(pairs, i, to_update) ==
    IF i > Len(pairs) THEN Call("OneToOne.get_files_to_update", "ok", to_update, <<>>)
    ELSE LET input_file == pairs[i][1]
             output_file == pairs[i][2]
             r == is_out_of_date(as_passed(input_file), output_file, how, None)
         IN  IF r = "True"
             THEN o2o_update_loop(pairs, i + 1,
                                  Append(to_update, TreeNode(output_file, <<input_file>>)))
             ELSE IF r = "False" THEN o2o_update_loop(pairs, i + 1, to_update)
             ELSE Call("OneToOne.get_files_to_update", r, <<>>, <<>>)

OneToOne_get_files_to_update ==
    /\ \E input_files \in Orderings(Glob(from_pattern)) :
        ret' = o2o_update_loop(o2o_iter_files(input_files), 1, <<>>)
    /\ UNCHANGED <<fs, cache_file, how, rel, writer, tokenizer, committed, how_cache_file, recorded>>

OneToOne_get_dependency_pairs ==
    /\ \E input_files \in Orderings(Glob(from_pattern)) :
        ret' = Call("OneToOne.get_dependency_pairs", "ok", o2o_iter_files(input_files), <<>>)
    /\ UNCHANGED <<fs, cache_file, how, rel, writer, tokenizer, committed, how_cache_file, recorded>>

RECURSIVE o2o_updated_loop(_, _, _)
\* the loop of OneToOnePatternDependency.set_files_updated over pairs[i..],
\* from the cache file cf
o2o_updated_loop(pairs, i, cf) ==
    IF i > Len(pairs) THEN [exc |-> "none", file |-> cf]
    ELSE LET u == mark_updated(cf, <<pairs[i][1]>>, pairs[i][2], how, None)
         IN  IF u.exc # "none" THEN u ELSE o2o_updated_loop(pairs, i + 1, u.file)

OneToOne_set_files_updated ==
    /\ \E input_files \in Orderings(Glob(from_pattern)) :
        LET u == o2o_updated_loop(o2o_iter_files(input_files), 1, cache_file)
        IN  /\ cache_file' = u.file
            /\ ret' = Call("OneToOne.set_files_updated",
                           IF u.exc = "none" THEN "ok" ELSE u.exc, <<>>, <<>>)
    /\ UNCHANGED <<fs, how, rel, writer, tokenizer, committed, how_cache_file, recorded>>

NextOneToOne ==
    \/ FsWrite(FilesOneToOne)
    \/ FsRemove(FilesOneToOne)
    \/ OneToOne_get_files_to_update
    \/ OneToOne_get_dependency_pairs
    \/ OneToOne_set_files_updated

SpecOneToOne == Init /\ [][NextOneToOne]_vars

\* the output path OneToOne derives for an input path
OutputOf(input_file) == re_sub(o2o_regex, o2o_subst, input_file)

\* C4: OneToOne's get_files_to_update returns exactly one node for each
\* matched input whose output the policy finds stale for the one-element
\* input list [input_file], the list set_files_updated records for it
C4_OneNodePerStaleOutput ==
    ret.op = "OneToOne.get_files_to_update"
    => /\ ret.res = "ok"
       /\ Range(ret.val) =
            {TreeNode(OutputOf(i), <<i>>) :
                i \in {j \in Glob(from_pattern) :
                        is_out_of_date(<<j>>, OutputOf(j), how, None) = "True"}}
       /\ Len(ret.val) = Cardinality(Range(ret.val))

(***************************************************************************)
(* ManyToVariableOnePatternDependency("s?", "t*", how=how)                 *)
(***************************************************************************)
to_pattern == <<"t", "*">>
FilesVariableOne == { <<"s","a">>, <<"s","b">>, <<"t","a">>, <<"t","b">>, <<"t","*">> }

init_first_match(possible_files) ==
    IF Exists(to_pattern) \/ possible_files = <<>>
    THEN [exc |-> "none", to_file |-> to_pattern]
    ELSE [exc |-> "none", to_file |-> possible_files[1]]

\* ManyToVariableOnePatternDependency.__init__ when glob(to_pattern) would
\* list possible_files: the exception raised, or self._to_file
variable_init(possible_files) ==
    IF Exists(to_pattern) THEN [exc |-> "none", to_file |-> to_pattern]
    ELSE IF Len(possible_files) = 0 THEN [exc |-> "none", to_file |-> to_pattern]
    ELSE IF Len(possible_files) = 1 THEN [exc |-> "none", to_file |-> possible_files[1]]
    ELSE [exc |-> "DependencyError", to_file |-> to_pattern]

\* dep = ManyToVariableOnePatternDependency(...): dep is bound only if the
\* constructor returns
ManyToVariableOne_init ==
    /\ \E possible_files \in Orderings(Glob(to_pattern)) :
        LET r == variable_init(possible_files)
        IN  /\ rel' = IF r.exc = "none" THEN [bound |-> TRUE, to_file |-> r.to_file] ELSE rel
            /\ ret' = Call("ManyToVariableOne.__init__",
                           IF r.exc = "none" THEN "ok" ELSE r.exc, <<>>, <<>>)
    /\ UNCHANGED <<fs, cache_file, how, writer, tokenizer, committed, how_cache_file, recorded>>

\* the value of ManyToVariableOnePatternDependency.get_files_to_update
variable_files_to_update(input_files) ==
    LET r == is_out_of_date(input_files, rel.to_file, how, to_pattern)
    IN  IF r = "True"
        THEN Call("ManyToVariableOne.get_files_to_update", "ok",
                  <<TreeNode(rel.to_file, input_files)>>, <<>>)
        ELSE IF r = "False"
        THEN Call("ManyToVariableOne.get_files_to_update", "ok", <<>>, <<>>)
        ELSE Call("ManyToVariableOne.get_files_to_update", r, <<>>, <<>>)

ManyToVariableOne_get_files_to_update ==
    /\ rel.bound
    /\ \E input_files \in Orderings(Glob(from_pattern)) :
        ret' = variable_files_to_update(input_files)
    /\ UNCHANGED <<fs, cache_file, how, rel, writer, tokenizer, committed, how_cache_file, recorded>>

ManyToVariableOne_get_dependency_pairs ==
    /\ rel.bound
    /\ \E input_files \in Orderings(Glob(from_pattern)) :
        ret' = Call("ManyToVariableOne.get_dependency_pairs", "ok",
                    [i \in DOMAIN input_files |-> <<input_files[i], rel.to_file>>], <<>>)
    /\ UNCHANGED <<fs, cache_file, how, rel, writer, tokenizer, committed, how_cache_file, recorded>>

ManyToVariableOne_set_files_updated ==
    /\ rel.bound
    /\ \E input_files \in Orderings(Glob(from_pattern)) :
        LET io == get_input_output_files(
                      [i \in DOMAIN input_files |-> <<input_files[i], rel.to_file>>])
        IN  IF io.output_files = <<>>
            THEN /\ ret' = Call("ManyToVariableOne.set_files_updated", "IndexError",
                                <<>>, <<>>)
                 /\ UNCHANGED <<cache_file, committed>>
            ELSE LET u == mark_updated(cache_file, io.input_files, io.output_files[1],
                                       how, to_pattern)
                 IN  /\ cache_file' = u.file
                     /\ committed' = IF u.exc = "none"
                                    THEN [to_file |-> rel.to_file,
                                          input_files |-> io.input_files]
                                    ELSE committed
                     /\ ret' = Call("ManyToVariableOne.set_files_updated",
                                    IF u.exc = "none" THEN "ok" ELSE u.exc, <<>>, <<>>)
    /\ UNCHANGED <<fs, how, rel, writer, tokenizer, how_cache_file, recorded>>

NextVariableOne ==
    \/ FsWrite(FilesVariableOne)
    \/ FsRemove(FilesVariableOne)
    \/ ManyToVariableOne_init
    \/ ManyToVariableOne_get_files_to_update
    \/ ManyToVariableOne_get_dependency_pairs
    \/ ManyToVariableOne_set_files_updated

SpecVariableOne == Init /\ [][NextVariableOne]_vars

\* the matched inputs, in the order get_input_output_files hands them on
MatchedInputs == sorted(CHOOSE s \in Orderings(Glob(from_pattern)) : TRUE)
InputNewerThan(output_file) ==
    \E i \in Glob(from_pattern) : Mtime(i) > Mtime(output_file)

\* C6: under UpdateByMtimeAndExistance, when set_files_updated last ran while
\* the output resolved to one name, the relation now in use resolved to
\* another name matching the pattern, and the matched inputs are the ones
\* then recorded, get_files_to_update is decided by the modification times
\* alone: the rename of the output forces no update
C6_AliasKeySurvivesRename ==
    (/\ ret.op = "ManyToVariableOne.get_files_to_update"
     /\ how = "UpdateByMtimeAndExistance"
     /\ committed # Never
     /\ rel.to_file # committed.to_file
     /\ Exists(rel.to_file)
     /\ committed.input_files = MatchedInputs)
    => /\ ret.res = "ok"
       /\ (ret.val = <<>>) <=> ~InputNewerThan(rel.to_file)

\* C6 witness: recorded under ta, queried under tb, and found up to date
C6_Witness ==
    /\ ret.op = "ManyToVariableOne.get_files_to_update"
    /\ how = "UpdateByMtimeAndExistance"
    /\ committed.to_file = <<"t", "a">>
    /\ committed.input_files = << <<"s", "a">>, <<"s", "b">> >>
    /\ rel.to_file = <<"t", "b">>
    /\ ~Exists(<<"t", "a">>) /\ Exists(<<"t", "b">>)
    /\ Glob(from_pattern) = {<<"s", "a">>, <<"s", "b">>}
    /\ ret.res = "ok" /\ ret.val = <<>>

\* C8 as stated: the constructor takes the literal pattern when the glob
\* matches nothing, the match when it matches one file, and raises
\* DependencyError when it matches more than one
C8_Original ==
    ret.op = "ManyToVariableOne.__init__"
    => LET g == Glob(to_pattern)
       IN  /\ g = {} => (ret.res = "ok" /\ rel.to_file = to_pattern)
           /\ Cardinality(g) = 1 => (ret.res = "ok" /\ rel.to_file \in g)
           /\ Cardinality(g) > 1 => ret.res = "DependencyError"

\* C8 amended: when a file exists at the literal pattern path the constructor
\* takes that path without globbing; otherwise zero matches give the literal
\* pattern, one match gives the matched path, and more than one raises
\* DependencyError, leaving no new relation object and the cache file as it was
C8_Amended ==
    [][ret'.op = "ManyToVariableOne.__init__"
       => LET g == Glob(to_pattern)
          IN  /\ cache_file' = cache_file
              /\ Exists(to_pattern)
                 => (ret'.res = "ok" /\ rel'.bound /\ rel'.to_file = to_pattern)
              /\ (~Exists(to_pattern) /\ g = {})
                 => (ret'.res = "ok" /\ rel'.bound /\ rel'.to_file = to_pattern)
              /\ (~Exists(to_pattern) /\ Cardinality(g) = 1)
                 => (ret'.res = "ok" /\ rel'.bound /\ rel'.to_file \in g)
              /\ (~Exists(to_pattern) /\ Cardinality(g) > 1)
                 => (ret'.res = "DependencyError" /\ rel' = rel)]_vars

\* C8 witness: two files match, the constructor has raised, no object exists
C8_Witness ==
    /\ ret.op = "ManyToVariableOne.__init__"
    /\ ret.res = "DependencyError"
    /\ Glob(to_pattern) = {<<"t", "a">>, <<"t", "b">>}
    /\ ~rel.bound

\* C9: a relation constructed when nothing matched the output pattern, queried
\* when exactly one file matches it, decides staleness against that file: it
\* lists the output exactly when that file is out of date
C9_ResolvedWhenQueried ==
    (/\ ret.op = "ManyToVariableOne.get_files_to_update"
     /\ rel.to_file = to_pattern
     /\ ~Exists(to_pattern)
     /\ Cardinality(Glob(to_pattern)) = 1)
    => LET f == CHOOSE f \in Glob(to_pattern) : TRUE
       IN  /\ ret.res = "ok"
           /\ (ret.val = <<>>)
              <=> is_out_of_date(MatchedInputs, f, how, to_pattern) = "False"

(***************************************************************************)
(* update_cache step by step, by processes sharing one cache file          *)
(***************************************************************************)
WriteInputs == { << <<"a">> >>, << <<"b">> >> }

\* lines 64-67: read the document and set the key's entry in the local dict
update_cache_load(p) ==
    /\ writer[p].pc = "idle"
    /\ \E input_files \in WriteInputs, alt \in AltKeys :
        LET cached_list == get_json(cache_file)
            key == get_key(policy_output, alt)
        IN  IF cached_list.exc # "none"
            THEN /\ ret' = Call("UpdateByMtimeAndExistance.update_cache",
                                cached_list.exc, <<>>, <<p>>)
                 /\ UNCHANGED writer
            ELSE /\ writer' = [writer EXCEPT ![p] =
                        [pc |-> "loaded", key |-> key,
                         doc |-> Put(cached_list.doc, key, cached_entry(input_files))]]
                 /\ ret' = NoCall
    /\ recorded' = [recorded EXCEPT !.by = @ \cup {p}]
    /\ UNCHANGED <<fs, cache_file, how, rel, tokenizer, committed, how_cache_file>>

\* what open(self.cache_file, 'w') leaves on disk: a file of no bytes
open_for_writing(p) == [kind |-> "empty", doc |-> <<>>]

\* line 68
update_cache_open(p) ==
    /\ writer[p].pc = "loaded"
    /\ cache_file' = open_for_writing(p)
    /\ writer' = [writer EXCEPT ![p].pc = "opened"]
    /\ ret' = NoCall
    /\ UNCHANGED <<fs, how, rel, tokenizer, committed, how_cache_file, recorded>>

\* line 69, json.dump: the file object flushes a first part of the document
update_cache_flush(p) ==
    /\ writer[p].pc = "opened"
    /\ cache_file' = [kind |-> "partial", doc |-> <<>>]
    /\ writer' = [writer EXCEPT ![p].pc = "writing"]
    /\ ret' = NoCall
    /\ UNCHANGED <<fs, how, rel, tokenizer, committed, how_cache_file, recorded>>

\* the document as it would be written if the commits were serialized: every
\* entry recorded so far, and the writer's own
dumped_merged(p) == Put(recorded.doc, writer[p].key, writer[p].doc[writer[p].key])

\* json.dump(cached_list, f): the document written is the writer's local dict
dumped(p) == writer[p].doc

\* line 69 to the end of the with block: the whole document is on disk
update_cache_close(p) ==
    /\ writer[p].pc \in {"opened", "writing"}
    /\ cache_file' = DocFile(dumped(p))
    /\ writer' = [writer EXCEPT ![p] = IdleProc]
    /\ ret' = Call("UpdateByMtimeAndExistance.update_cache", "ok", <<>>, <<p>>)
    /\ recorded' = [recorded EXCEPT
                        !.doc = Put(@, writer[p].key, writer[p].doc[writer[p].key])]
    /\ UNCHANGED <<fs, how, rel, tokenizer, committed, how_cache_file>>

\* a write of line 69 raises OSError, or the process is interrupted: the
\* file keeps what reached the disk
update_cache_fail(p) ==
    /\ writer[p].pc \in {"opened", "writing"}
    /\ writer' = [writer EXCEPT ![p] = IdleProc]
    /\ ret' = Call("UpdateByMtimeAndExistance.update_cache", "OSError", <<>>, <<p>>)
    /\ UNCHANGED <<fs, cache_file, how, rel, tokenizer, committed, how_cache_file, recorded>>

NextWrite ==
    \E p \in Procs :
        \/ update_cache_load(p)
        \/ update_cache_open(p)
        \/ update_cache_flush(p)
        \/ update_cache_close(p)
        \/ update_cache_fail(p)

SpecWrite == InitPolicy /\ [][NextWrite]_vars

\* C7: when update_cache has failed or was interrupted during the write, the
\* cache file is a complete document (or still absent), never an empty or
\* half-written file
C7_AtomicRewrite ==
    (/\ ret.op = "UpdateByMtimeAndExistance.update_cache"
     /\ ret.res = "OSError"
     /\ \A p \in Procs : writer[p].pc = "idle")
    => cache_file.kind \in {"absent", "doc"}

\* process q leaves update_cache with the document written
Closes(q) ==
    /\ writer[q].pc \in {"opened", "writing"}
    /\ writer'[q].pc = "idle"
    /\ ret'.op = "UpdateByMtimeAndExistance.update_cache"
    /\ ret'.res = "ok"

\* the entries of other keys that were recorded after q read the document
Unseen(q) ==
    {k \in DOMAIN recorded.doc \ {writer[q].key} :
        k \notin DOMAIN writer[q].doc \/ writer[q].doc[k] # recorded.doc[k]}

\* C21: update_cache writes the document it read plus its own entry, with
\* no lock and without looking at the file again: when q returns, its own
\* entry is in the file, every entry another process recorded after q read
\* is gone from it (the lost update), and the entries q did read are kept;
\* while one process only has called update_cache, the file holds every
\* entry recorded
C21_UnserializedCommits ==
    /\ [][\A q \in Procs :
            Closes(q)
            => /\ cache_file'.kind = "doc"
               /\ cache_file'.doc[writer[q].key] = writer[q].doc[writer[q].key]
               /\ \A k \in Unseen(q) :
                    k \notin DOMAIN cache_file'.doc \/ cache_file'.doc[k] # recorded.doc[k]
               /\ \A k \in DOMAIN recorded.doc \ (Unseen(q) \cup {writer[q].key}) :
                    cache_file'.doc[k] = recorded.doc[k]]_vars
    /\ []((Cardinality(recorded.by) <= 1 /\ cache_file.kind = "doc")
            => (cache_file.doc = recorded.doc))

\* both processes read the missing cache before either wrote, each recorded
\* an entry under its own key, and the file holds one of the two entries
C21_Witness ==
    /\ \A p \in Procs : writer[p].pc = "idle"
    /\ recorded.by = Procs
    /\ ret.op = "UpdateByMtimeAndExistance.update_cache"
    /\ ret.res = "ok"
    /\ Cardinality(DOMAIN recorded.doc) = 2
    /\ cache_file.kind = "doc"
    /\ Cardinality(DOMAIN cache_file.doc) = 1

====
